---- MODULE Spec2Model ----
(***************************************************************************)
(* Model of the twenty_migration scripts:                                  *)
(*   apply_twenty_schema.py  (schema reconciler, apply_schema)             *)
(*   main.py                 (CSV bootstrap: ensure object/fields, upsert) *)
(*   delete_twenty_object.py (object lifecycle guard)                      *)
(* Names are sequences of one-character strings, so that snake_to_camel,   *)
(* slugify and str(...).strip() are computed as the code computes them.    *)
(* The remote service is a set of objects, fields and records; every HTTP  *)
(* call may succeed, be answered with a status >= 400 (RuntimeError) or    *)
(* fail in transport (an exception that is not a RuntimeError).            *)
(***************************************************************************)
EXTENDS Integers, Sequences, FiniteSets, TLC

VARIABLES
    pc,             \* position of the running script
    err,            \* exception that ended the run ("none" while running)
    run,            \* number of the current run (1, 2, ...)
    calls,          \* gateway calls issued by the current run, in order
    gwObjects,      \* remote objects
    gwFields,       \* remote fields
    gwRecords,      \* remote records of the collection
    gwFilters,      \* TRUE iff the gateway honours ?objectMetadataId= on /fields
    faithful,       \* FALSE once the gateway answered against its stored state
    nextId,         \* next id the gateway hands out
    schema,         \* apply_schema: the loaded YAML document
    oi,             \* apply_schema: index of obj in objects
    fi,             \* apply_schema: index of f in obj["fields"]; ensure_fields: index of col
    object_id,      \* existing["id"] / obj["id"]
    current_names,  \* current_names / existing_names
    payload,        \* create_field: the full payload
    ret,            \* value returned by the last create_field call
    snapObjects,    \* remote objects when the current run started
    snapFields,     \* remote fields when the current run started
    snapRecords,    \* remote records before the current upsert_record call
    argv,           \* main.py / delete_twenty_object.py: command-line arguments
    df,             \* main.py: the data frame, [columns, rows]
    rows,           \* main.py: the rows handed to upsert_record, in order
    ri,             \* main.py: index of the row being upserted
    row,            \* upsert_record: the row
    matches         \* upsert_record: matches

vars == <<pc, err, run, calls, gwObjects, gwFields, gwRecords, gwFilters, faithful,
          nextId, schema, oi, fi, object_id, current_names, payload, ret,
          snapObjects, snapFields, snapRecords, argv, df, rows, ri, row, matches>>

----------------------------------------------------------------------------
(* Bounds of the model *)

\* declared fields in one schema document, over all its objects
MaxFields == 2
\* runs of one script against the same remote state
MaxRuns == 2
\* rows of one upsert run
MaxRows == 2
\* values of a column handed to infer_twenty_type
MaxCells == 3

----------------------------------------------------------------------------
(* Characters and strings *)

LowerCase == <<"a","b","c","d","e","f","g","h","i","j","k","l","m",
               "n","o","p","q","r","s","t","u","v","w","x","y","z">>
UpperCase == <<"A","B","C","D","E","F","G","H","I","J","K","L","M",
               "N","O","P","Q","R","S","T","U","V","W","X","Y","Z">>
Digits == {"0","1","2","3","4","5","6","7","8","9"}

Range(s) == {s[i] : i \in DOMAIN s}

LowerLetters == Range(LowerCase)
UpperLetters == Range(UpperCase)

IsLower(c) == c \in LowerLetters
IsUpper(c) == c \in UpperLetters
IsCased(c) == IsLower(c) \/ IsUpper(c)

\* str.lower() / str.upper() on one character
Lower(c) == IF IsUpper(c) THEN LowerCase[CHOOSE i \in 1..26 : UpperCase[i] = c] ELSE c
Upper(c) == IF IsLower(c) THEN UpperCase[CHOOSE i \in 1..26 : LowerCase[i] = c] ELSE c

\* str.title(): a cased character is upper-cased when it follows an uncased
\* character (or starts the string) and lower-cased otherwise
Title(x) ==
    [i \in 1..Len(x) |->
        IF ~IsCased(x[i]) THEN x[i]
        ELSE IF i = 1 \/ ~IsCased(x[i-1]) THEN Upper(x[i]) ELSE Lower(x[i])]

\* str.split(sep): the components between the separators (always at least one)
RECURSIVE Split(_, _)
Split(s, sep) ==
    IF \A i \in 1..Len(s) : s[i] # sep THEN <<s>>
    ELSE LET k == CHOOSE i \in 1..Len(s) : s[i] = sep /\ \A j \in 1..(i-1) : s[j] # sep
         IN <<SubSeq(s, 1, k-1)>> \o Split(SubSeq(s, k+1, Len(s)), sep)

RECURSIVE Concat(_)
Concat(ss) == IF ss = <<>> THEN <<>> ELSE Head(ss) \o Concat(Tail(ss))

snake_to_camel(snake_str) ==
    LET components == Split(snake_str, "_")
    IN components[1] \o Concat([i \in 1..(Len(components)-1) |-> Title(components[i+1])])

HasUnderscore(s) == \E i \in 1..Len(s) : s[i] = "_"

----------------------------------------------------------------------------
(* main.py: slugify, cell values, str(...).strip() *)

IsSpace(c) == c \in {" ", "\t"}
IsAlnum(c) == IsLower(c) \/ c \in Digits

\* str.strip(chars): the string without its leading and trailing characters in drop
RECURSIVE StripOf(_, _)
StripOf(s, drop) ==
    IF s = <<>> THEN s
    ELSE IF s[1] \in drop THEN StripOf(Tail(s), drop)
    ELSE IF s[Len(s)] \in drop THEN StripOf(SubSeq(s, 1, Len(s)-1), drop)
    ELSE s

Strip(s) == StripOf(s, {" ", "\t"})

\* re.sub(r"[^a-z0-9]+", "_", s): every run of other characters becomes one "_"
RECURSIVE SubRuns(_)
SubRuns(s) ==
    IF s = <<>> THEN s
    ELSE IF IsAlnum(s[1]) THEN <<s[1]>> \o SubRuns(Tail(s))
    ELSE IF Len(s) > 1 /\ ~IsAlnum(s[2]) THEN SubRuns(Tail(s))
    ELSE <<"_">> \o SubRuns(Tail(s))

\* slugify up to its checks: strip, lower, runs to "_", strip "_"
SlugBody(s) ==
    LET t == Strip(s)
    IN StripOf(SubRuns([i \in 1..Len(t) |-> Lower(t[i])]), {"_"})

\* slugify raises ValueError for a string without any [a-z0-9]
SlugifyRaises(s) == SlugBody(s) = <<>>

slugify(s) ==
    LET t == SlugBody(s)
    IN IF t # <<>> /\ t[1] \in Digits THEN <<"f", "_">> \o t ELSE t

\* a cell of the data frame or a value of a row: None, NaN, a str, an int, a bool
Null == [kind |-> "null", s |-> <<>>, n |-> 0]
NaN == [kind |-> "nan", s |-> <<>>, n |-> 0]
\* a float cell, held by its decimal text (str(v))
Float(chars) == [kind |-> "float", s |-> chars, n |-> 0]
Str(chars) == [kind |-> "str", s |-> chars, n |-> 0]
Num(n) == [kind |-> "num", s |-> <<>>, n |-> n]
Bool(b) == [kind |-> "bool", s |-> <<>>, n |-> IF b THEN 1 ELSE 0]

\* Python truth value of a cell
Truthy(v) ==
    CASE v.kind = "null" -> FALSE
      [] v.kind = "nan" -> TRUE
      [] v.kind = "float" -> \E i \in 1..Len(v.s) : v.s[i] \in Digits \ {"0"}
      [] v.kind = "str" -> v.s # <<>>
      [] OTHER -> v.n # 0

DigitChars == <<"0","1","2","3","4","5","6","7","8","9">>

RECURSIVE DigitsOf(_)
DigitsOf(n) ==
    IF n < 10 THEN <<DigitChars[n+1]>>
    ELSE DigitsOf(n \div 10) \o <<DigitChars[(n % 10) + 1]>>

\* str(v)
StrOf(v) ==
    CASE v.kind \in {"str", "float"} -> v.s
      [] v.kind = "num" -> DigitsOf(v.n)
      [] v.kind = "bool" -> IF v.n = 1 THEN <<"T","r","u","e">> ELSE <<"F","a","l","s","e">>
      [] v.kind = "nan" -> <<"n","a","n">>
      [] OTHER -> <<"N","o","n","e">>

ExternalId == <<"e","x","t","e","r","n","a","l","_","i","d">>

\* row.get(key): None when the key is missing
RowGet(r, key) == IF key \in DOMAIN r THEN r[key] ELSE Null

\* mutant: the external id is not trimmed
ExtOfUntrimmed(r, external_id_field) ==
    LET v == RowGet(r, external_id_field)
    IN IF Truthy(v) THEN StrOf(v) ELSE <<>>

\* upsert_record, line 250: ext = str(row.get(external_id_field) or "").strip()
ExtOf(r, external_id_field) ==
    LET v == RowGet(r, external_id_field)
    IN Strip(IF Truthy(v) THEN StrOf(v) ELSE <<>>)

----------------------------------------------------------------------------
(* Inputs: names, declarations, schema documents, remote states *)

Deal == <<"d","e","a","l">>
Task == <<"t","a","s","k">>
ObjNames == {Deal, Task}

d_v == <<"d","_","v">>
dV == <<"d","V">>
dv == <<"d","v">>
DeclNames == {d_v, dV, dv}

\* the optional attributes of a declaration that are meaningfully present
\* (description, isNullable, icon, defaultValue, settings, options)
OptSets == {{}, {"icon", "description"}}

\* declarations: every name without optional attributes, and the word-separated
\* name with each set of them
FieldDecls ==
    [name : DeclNames, type : {"TEXT"}, opts : {{}}]
    \cup [name : {d_v}, type : {"TEXT"}, opts : OptSets]

RECURSIVE SeqsUpTo(_, _)
SeqsUpTo(S, n) ==
    IF n = 0 THEN {<<>>}
    ELSE LET shorter == SeqsUpTo(S, n-1)
         IN shorter \cup {Append(q, x) : q \in {t \in shorter : Len(t) = n-1}, x \in S}

ObjDecl(name, fields) == [nameSingular |-> name, fields |-> fields]

\* the object lists of the schema documents: deal alone, or deal and then task,
\* with at most MaxFields declared fields in all
ObjLists ==
    LET lists == SeqsUpTo(FieldDecls, MaxFields)
    IN {<<ObjDecl(Deal, q)>> : q \in lists}
       \cup UNION {{<<ObjDecl(Deal, SubSeq(q, 1, k)),
                        ObjDecl(Task, SubSeq(q, k+1, Len(q)))>> : k \in 0..Len(q)} :
                     q \in lists}

\* a YAML value under "objects": a list, or something that is not a list
YamlList(items) == [list |-> TRUE, items |-> items]
NotAList == [list |-> FALSE, items |-> <<>>]

\* the loaded document: a mapping that may lack the "objects" key
Document(has, value) == [has_objects |-> has, objects |-> value]
Schemas ==
    {Document(FALSE, YamlList(<<>>)), Document(TRUE, NotAList), Document(TRUE, YamlList(<<>>))}
    \cup {Document(TRUE, YamlList(objs)) : objs \in ObjLists}

RemoteObject(id, name, custom) ==
    [id |-> id, nameSingular |-> name, isCustom |-> custom, isActive |-> TRUE]
RemoteField(id, oid, name) ==
    [id |-> id, objectMetadataId |-> oid, name |-> name, type |-> "TEXT",
     label |-> name, opts |-> {}]

DealObj == RemoteObject(1, Deal, TRUE)
TaskObj == RemoteObject(2, Task, FALSE)

\* remote states a reconciliation run may start from: fields only of listed objects
RemoteStates ==
    {st \in [objects : {{}, {TaskObj}, {DealObj, TaskObj}},
             fields : SUBSET {RemoteField(3, 1, dV), RemoteField(4, 1, d_v),
                              RemoteField(5, 2, dV)}] :
        \A f \in st.fields : \E o \in st.objects : o.id = f.objectMetadataId}

\* the gateway hands out ids it has not used
FreshId(objects, fields, records) ==
    LET used == {o.id : o \in objects} \cup {f.id : f \in fields} \cup {r.id : r \in records}
    IN (CHOOSE m \in used \cup {0} : \A u \in used : u <= m) + 1

----------------------------------------------------------------------------
(* The gateway: http() of the three scripts and the remote service behind it *)

\* http(): "ok" returns r.json(); "http_error" is a status >= 400, raised as
\* RuntimeError; "transport" is an exception of requests (timeout, connection)
Outcomes == {"ok", "http_error", "transport"}

ErrorOf(outcome) == IF outcome = "http_error" THEN "RuntimeError" ELSE "TransportError"

\* GET /rest/metadata/fields: with params the gateway filters only if it honours them
GwFieldsResponse(params) ==
    IF params # 0 /\ gwFilters
    THEN {f \in gwFields : f.objectMetadataId = params}
    ELSE gwFields

\* POST /rest/metadata/fields stores the payload under a fresh id
GwStoredField(p) == [id |-> nextId, objectMetadataId |-> p.objectMetadataId,
                     name |-> p.name, type |-> p.type, label |-> p.label, opts |-> p.opts]

\* POST /rest/metadata/objects stores a custom, active object under a fresh id
GwStoredObject(name) == RemoteObject(nextId, name, TRUE)


----------------------------------------------------------------------------
(* apply_twenty_schema.py *)

\* schema.get("objects", [])
SchemaObjects == IF schema.has_objects THEN schema.objects ELSE YamlList(<<>>)

objects == SchemaObjects.items
obj == objects[oi]

\* mutant: the listed objects are returned whatever their nameSingular
find_object_any(name_singular) == gwObjects

\* find_object_by_singular: the listed objects with that nameSingular (the code
\* returns the first of them in listing order)
find_object_by_singular(name_singular) ==
    {o \in gwObjects : o.nameSingular = name_singular}

\* list_fields: all fields are fetched and filtered client-side
list_fields(object_metadata_id) ==
    {f \in GwFieldsResponse(0) : f.objectMetadataId = object_metadata_id}

\* fname_camel of apply_schema
fname_camel(fname) == IF HasUnderscore(fname) THEN snake_to_camel(fname) ELSE fname

\* two names are spellings of one field when their camel-style forms agree
SameField(a, b) == fname_camel(a) = fname_camel(b)

\* mutant: the created field takes the place of the object's field under the
\* other spelling of its name
FieldsAfterReplace(p) ==
    {f \in gwFields : ~(f.objectMetadataId = p.objectMetadataId /\ SameField(f.name, p.name))}
    \cup {GwStoredField(p)}

\* the remote fields after a successful POST /rest/metadata/fields
FieldsAfterCreate(p) == gwFields \cup {GwStoredField(p)}

\* mutant: only the raw spelling is looked up
FieldExistsRawOnly(fname, names) == fname \in names

\* the existence check of apply_schema: either spelling of the declared name
FieldExists(fname, names) == fname \in names \/ fname_camel(fname) \in names

\* the first declared field from index start on that the loop does not skip
FirstMissing(fields, start, names) ==
    LET todo == {j \in start..Len(fields) : ~FieldExists(fields[j].name, names)}
    IN IF todo = {} THEN Len(fields) + 1 ELSE CHOOSE j \in todo : \A k \in todo : j <= k

\* create_field: the full payload built from the declaration
BuildPayload(object_metadata_id, f) ==
    [type |-> f.type,
     objectMetadataId |-> object_metadata_id,
     name |-> IF HasUnderscore(f.name) THEN snake_to_camel(f.name) ELSE f.name,
     label |-> f.name,
     opts |-> f.opts]

payload_no_icon(p) == [p EXCEPT !.opts = p.opts \ {"icon"}]
minimal_payload(p) == [p EXCEPT !.opts = {}]

\* mutant: the minimal payload is tried before the payload without icon
NextTierMinimalFirst(tier, p) ==
    CASE tier = "full" -> "minimal"
      [] tier = "minimal" -> IF "icon" \in p.opts THEN "no_icon" ELSE "raise"
      [] OTHER -> "raise"

\* create_field: the tier tried after a tier failed with RuntimeError
NextTier(tier, p) ==
    CASE tier = "full" -> IF "icon" \in p.opts THEN "no_icon" ELSE "minimal"
      [] tier = "no_icon" -> "minimal"
      [] OTHER -> "raise"

TierPayload(tier, p) ==
    CASE tier = "full" -> p
      [] tier = "no_icon" -> payload_no_icon(p)
      [] OTHER -> minimal_payload(p)

TierPc(tier) ==
    CASE tier = "no_icon" -> "cf_no_icon"
      [] tier = "minimal" -> "cf_minimal"
      [] OTHER -> "a_error"

NoFrame == [columns |-> <<>>, cells |-> <<>>]
NoRow == [k \in {} |-> Null]
NoPayload == [type |-> "", objectMetadataId |-> 0, name |-> <<>>, label |-> <<>>, opts |-> {}]
NoField == [id |-> 0, objectMetadataId |-> 0, name |-> <<>>, type |-> "",
            label |-> <<>>, opts |-> {}]

\* the variables of main.py and of delete_twenty_object.py
otherScripts == <<gwRecords, gwFilters, snapRecords, argv, df, rows, ri, row, matches>>

\* an exception leaves apply_schema
ApplyRaise(kind) ==
    /\ pc' = "a_error"
    /\ err' = kind
    /\ UNCHANGED <<oi, fi, object_id, current_names, payload>>

\* the loop over obj["fields"] from index start on, up to the next create_field
\* call, the next object or the end of apply_schema
ApplyFields(start, names) ==
    LET j == FirstMissing(obj.fields, start, names)
    IN /\ err' = err
       /\ current_names' = names
       /\ UNCHANGED object_id
       /\ IF j <= Len(obj.fields)
          THEN /\ pc' = "cf_full"
               /\ fi' = j
               /\ oi' = oi
               /\ payload' = BuildPayload(object_id, obj.fields[j])
          ELSE /\ pc' = IF oi < Len(objects) THEN "a_find" ELSE "a_done"
               /\ oi' = IF oi < Len(objects) THEN oi + 1 ELSE oi
               /\ fi' = 0
               /\ payload' = NoPayload

\* mutant: only a value that is not a list is rejected
RejectedUnlessList(value) == ~value.list

\* apply_schema, line 191: not isinstance(objects, list) or not objects
Rejected(value) == ~value.list \/ value.items = <<>>

\* apply_schema, lines 190-194: the document is validated before any call; the
\* loop over the objects then starts with the first of them, or ends at once
ApplyValidate ==
    /\ pc = "a_start"
    /\ IF Rejected(SchemaObjects)
       THEN ApplyRaise("ValueError")
       ELSE /\ pc' = IF objects = <<>> THEN "a_done" ELSE "a_find"
            /\ oi' = IF objects = <<>> THEN 0 ELSE 1
            /\ UNCHANGED <<err, fi, object_id, current_names, payload>>
    /\ UNCHANGED <<run, calls, gwObjects, gwFields, faithful, nextId, schema, ret,
                   snapObjects, snapFields, otherScripts>>

\* existing = find_object_by_singular(name_singular), first lookup
ApplyFind ==
    /\ pc = "a_find"
    /\ \E outcome \in Outcomes :
         LET found == find_object_by_singular(obj.nameSingular)
         IN /\ calls' = Append(calls, [op |-> "list_objects", ok |-> outcome = "ok",
                                       name |-> obj.nameSingular,
                                       found |-> outcome = "ok" /\ found # {}])
            /\ IF outcome # "ok" THEN ApplyRaise(ErrorOf(outcome))
               ELSE IF found = {}
               THEN /\ pc' = "a_create"
                    /\ UNCHANGED <<err, oi, fi, object_id, current_names, payload>>
               ELSE \E existing \in found :
                    /\ pc' = "a_list_fields"
                    /\ object_id' = existing.id
                    /\ UNCHANGED <<err, oi, fi, current_names, payload>>
    /\ UNCHANGED <<run, gwObjects, gwFields, faithful, nextId, schema, ret,
                   snapObjects, snapFields, otherScripts>>

\* create_object(obj): the gateway may answer 2xx and yet not list the object
ApplyCreateObject ==
    /\ pc = "a_create"
    /\ \E outcome \in Outcomes \cup {"ok_not_listed"} :
         /\ calls' = Append(calls, [op |-> "create_object",
                                    ok |-> outcome \in {"ok", "ok_not_listed"},
                                    name |-> obj.nameSingular])
         /\ CASE outcome = "ok" ->
                   /\ gwObjects' = gwObjects \cup {GwStoredObject(obj.nameSingular)}
                   /\ nextId' = nextId + 1
                   /\ pc' = "a_refind"
                   /\ UNCHANGED <<err, faithful, oi, fi, object_id, current_names, payload>>
              [] outcome = "ok_not_listed" ->
                   /\ faithful' = FALSE
                   /\ pc' = "a_refind"
                   /\ UNCHANGED <<err, gwObjects, nextId, oi, fi, object_id,
                                  current_names, payload>>
              [] OTHER ->
                   /\ ApplyRaise(ErrorOf(outcome))
                   /\ UNCHANGED <<gwObjects, nextId, faithful>>
    /\ UNCHANGED <<run, gwFields, schema, ret, snapObjects, snapFields, otherScripts>>

\* mutant: an object missing from the second listing is taken from the create
\* response and the run goes on to its fields
ApplyRefindTrustsCreate ==
    /\ pc = "a_refind"
    /\ \E outcome \in Outcomes :
         LET found == find_object_by_singular(obj.nameSingular)
         IN /\ calls' = Append(calls, [op |-> "list_objects", ok |-> outcome = "ok",
                                       name |-> obj.nameSingular,
                                       found |-> outcome = "ok" /\ found # {}])
            /\ IF outcome # "ok" THEN ApplyRaise(ErrorOf(outcome))
               ELSE /\ pc' = "a_list_fields"
                    /\ object_id' = IF found = {} THEN nextId
                                    ELSE (CHOOSE existing \in found : TRUE).id
                    /\ UNCHANGED <<err, oi, fi, current_names, payload>>
    /\ UNCHANGED <<run, gwObjects, gwFields, faithful, nextId, schema, ret,
                   snapObjects, snapFields, otherScripts>>

\* existing = find_object_by_singular(name_singular) after the create
ApplyRefind ==
    /\ pc = "a_refind"
    /\ \E outcome \in Outcomes :
         LET found == find_object_by_singular(obj.nameSingular)
         IN /\ calls' = Append(calls, [op |-> "list_objects", ok |-> outcome = "ok",
                                       name |-> obj.nameSingular,
                                       found |-> outcome = "ok" /\ found # {}])
            /\ IF outcome # "ok" THEN ApplyRaise(ErrorOf(outcome))
               ELSE IF found = {} THEN ApplyRaise("RuntimeError")
               ELSE \E existing \in found :
                    /\ pc' = "a_list_fields"
                    /\ object_id' = existing.id
                    /\ UNCHANGED <<err, oi, fi, current_names, payload>>
    /\ UNCHANGED <<run, gwObjects, gwFields, faithful, nextId, schema, ret,
                   snapObjects, snapFields, otherScripts>>

\* current_fields = list_fields(object_id), then the loop over the declared fields
ApplyListFields ==
    /\ pc = "a_list_fields"
    /\ \E outcome \in Outcomes :
         /\ calls' = Append(calls, [op |-> "list_fields", ok |-> outcome = "ok",
                                    oid |-> object_id, params |-> 0])
         /\ IF outcome # "ok" THEN ApplyRaise(ErrorOf(outcome))
            ELSE ApplyFields(1, {f.name : f \in list_fields(object_id)})
    /\ UNCHANGED <<run, gwObjects, gwFields, faithful, nextId, schema, ret,
                   snapObjects, snapFields, otherScripts>>

\* mutant: the caller logs a RuntimeError of the minimal tier and goes on
CallerCatchesExhaustion(tier, outcome) == tier = "minimal" /\ outcome = "http_error"

\* apply_schema, line 224: create_field is called outside any try block, so no
\* exception that leaves create_field is caught
CallerCatches(tier, outcome) == FALSE

\* one POST of create_field at the given tier; a RuntimeError of the full and of
\* the no-icon tier is caught, any other exception leaves create_field
CreateFieldTier(tier) ==
    \E outcome \in Outcomes :
      LET p == TierPayload(tier, payload)
          next == NextTier(tier, payload)
      IN /\ calls' = Append(calls, [op |-> "create_field", ok |-> outcome = "ok",
                                    tier |-> tier, oid |-> p.objectMetadataId,
                                    name |-> p.name, opts |-> p.opts,
                                    decl |-> <<oi, fi>>])
         /\ CASE outcome = "ok" ->
                   /\ gwFields' = FieldsAfterCreate(p)
                   /\ nextId' = nextId + 1
                   /\ ret' = GwStoredField(p)
                   /\ ApplyFields(fi + 1, current_names)
              [] outcome = "http_error" /\ next # "raise" ->
                   /\ pc' = TierPc(next)
                   /\ UNCHANGED <<err, gwFields, nextId, ret, oi, fi, object_id,
                                  current_names, payload>>
              [] OTHER ->
                   /\ IF CallerCatches(tier, outcome)
                      THEN ApplyFields(fi + 1, current_names)
                      ELSE ApplyRaise(ErrorOf(outcome))
                   /\ UNCHANGED <<gwFields, nextId, ret>>

CreateFieldFull ==
    /\ pc = "cf_full"
    /\ CreateFieldTier("full")
    /\ UNCHANGED <<run, gwObjects, faithful, schema, snapObjects, snapFields,
                   otherScripts>>

CreateFieldNoIcon ==
    /\ pc = "cf_no_icon"
    /\ CreateFieldTier("no_icon")
    /\ UNCHANGED <<run, gwObjects, faithful, schema, snapObjects, snapFields,
                   otherScripts>>

CreateFieldMinimal ==
    /\ pc = "cf_minimal"
    /\ CreateFieldTier("minimal")
    /\ UNCHANGED <<run, gwObjects, faithful, schema, snapObjects, snapFields,
                   otherScripts>>

\* after a run that completed, the operator runs the script again with the same
\* document
ApplyRerun ==
    /\ pc = "a_done"
    /\ run < MaxRuns
    /\ run' = run + 1
    /\ pc' = "a_start"
    /\ err' = "none"
    /\ calls' = <<>>
    /\ oi' = 0 /\ fi' = 0 /\ object_id' = 0 /\ current_names' = {}
    /\ payload' = NoPayload /\ ret' = NoField
    /\ snapObjects' = gwObjects
    /\ snapFields' = gwFields
    /\ UNCHANGED <<gwObjects, gwFields, faithful, nextId, schema, otherScripts>>

InitApply ==
    /\ pc = "a_start" /\ err = "none" /\ run = 1 /\ calls = <<>>
    /\ schema \in Schemas
    /\ \E st \in RemoteStates :
         /\ gwObjects = st.objects
         /\ gwFields = st.fields
         /\ nextId = FreshId(st.objects, st.fields, {})
    /\ snapObjects = gwObjects /\ snapFields = gwFields
    /\ faithful = TRUE
    /\ oi = 0 /\ fi = 0 /\ object_id = 0 /\ current_names = {}
    /\ payload = NoPayload /\ ret = NoField
    /\ gwRecords = {} /\ gwFilters = TRUE /\ snapRecords = {}
    /\ argv = <<>> /\ df = NoFrame /\ rows = <<>> /\ ri = 0 /\ row = NoRow /\ matches = <<>>

NextApply ==
    \/ ApplyValidate
    \/ ApplyFind
    \/ ApplyCreateObject
    \/ ApplyRefind
    \/ ApplyListFields
    \/ CreateFieldFull
    \/ CreateFieldNoIcon
    \/ CreateFieldMinimal
    \/ ApplyRerun

SpecApply == InitApply /\ [][NextApply]_vars

----------------------------------------------------------------------------
(* Properties of apply_schema *)

CallsOf(op) == {i \in DOMAIN calls : calls[i].op = op}

\* C1: a run of apply_schema that follows a completed run with the same document,
\* against a gateway that stores what was created, issues no create_object and no
\* create_field call and leaves the remote objects and fields as that run left them
C1_Idempotence ==
    (run >= 2 /\ faithful) =>
        /\ CallsOf("create_object") = {}
        /\ CallsOf("create_field") = {}
        /\ gwObjects = snapObjects
        /\ gwFields = snapFields

\* C1 witness: the first run created a field from a word-separated declaration and
\* the second run completed
C1_Witness ==
    /\ run = 2 /\ pc = "a_done" /\ faithful
    /\ \E f \in snapFields : f.label = d_v /\ f.name = dV
    /\ \E o \in snapObjects : o.nameSingular = Deal /\ o # DealObj

\* C2: apply_schema issues no create_field call for a declared field when the
\* target object already has a field under either spelling of its name
C2_EitherSpelling ==
    pc \in {"cf_full", "cf_no_icon", "cf_minimal"} =>
        \A n \in current_names : ~SameField(n, obj.fields[fi].name)

\* a create_field call for the same declared field as call i
SameDecl(i, j) ==
    /\ j \in DOMAIN calls
    /\ calls[j].op = "create_field"
    /\ calls[j].decl = calls[i].decl

\* C5 as stated: every tier but the first follows the failed call of the tier
\* before it in the order full, no_icon, minimal
C5_EveryTierInTurn ==
    \A i \in CallsOf("create_field") :
        /\ calls[i].tier = "no_icon" =>
              SameDecl(i, i-1) /\ calls[i-1].tier = "full" /\ ~calls[i-1].ok
        /\ calls[i].tier = "minimal" =>
              SameDecl(i, i-1) /\ calls[i-1].tier = "no_icon" /\ ~calls[i-1].ok

\* C5 amended: the tiers are tried in the order full, no_icon, minimal, where the
\* no_icon tier exists only for a payload that carries an icon; each later tier
\* follows the failed call of the tier tried before it, no call follows a
\* successful one, and the value returned is the result of the successful call
C5_FallbackOrder ==
    /\ \A i \in CallsOf("create_field") :
        LET f == objects[calls[i].decl[1]].fields[calls[i].decl[2]]
        IN
        /\ calls[i].tier = "full" => ~SameDecl(i, i-1) /\ calls[i].opts = f.opts
        /\ calls[i].tier = "no_icon" =>
              /\ SameDecl(i, i-1) /\ calls[i-1].tier = "full" /\ ~calls[i-1].ok
              /\ "icon" \in f.opts
              /\ calls[i].opts = f.opts \ {"icon"}
        /\ calls[i].tier = "minimal" =>
              /\ SameDecl(i, i-1) /\ ~calls[i-1].ok
              /\ \/ calls[i-1].tier = "no_icon"
                 \/ calls[i-1].tier = "full" /\ "icon" \notin f.opts
              /\ calls[i].opts = {}
        /\ calls[i].ok => ~SameDecl(i, i+1)
    /\ (calls # <<>> /\ calls[Len(calls)].op = "create_field" /\ calls[Len(calls)].ok) =>
        /\ ret \in gwFields
        /\ ret.name = calls[Len(calls)].name
        /\ ret.opts = calls[Len(calls)].opts
        /\ ret.objectMetadataId = calls[Len(calls)].oid

\* C5 witness: the full and the no_icon call failed and the minimal call succeeded
C5_Witness ==
    \E i \in CallsOf("create_field") :
        /\ calls[i].tier = "minimal" /\ calls[i].ok
        /\ SameDecl(i, i-1) /\ calls[i-1].tier = "no_icon"
        /\ SameDecl(i, i-2) /\ calls[i-2].tier = "full"
        /\ ret = CHOOSE f \in gwFields : f.id = nextId - 1

\* C9: every remote object and field that existed when the run started exists
\* unchanged, and the run issued only listings, create_object and create_field
C9_AppendOnly ==
    /\ snapObjects \subseteq gwObjects
    /\ snapFields \subseteq gwFields
    /\ \A o \in gwObjects, s \in snapObjects : o.id = s.id => o = s
    /\ \A f \in gwFields, s \in snapFields : f.id = s.id => f = s
    /\ \A i \in DOMAIN calls :
          calls[i].op \in {"list_objects", "list_fields", "create_object", "create_field"}

\* C9 witness: a failed run that had created an object and a field next to
\* fields that existed before
C9_Witness ==
    /\ pc = "a_error"
    /\ snapFields # {}
    /\ gwObjects # snapObjects
    /\ gwFields # snapFields

\* C17: a failed call of the minimal tier is the last gateway call of the run:
\* create_field raises, nothing is stored or returned for the call, and
\* apply_schema ends in that error instead of going on or completing
C17_ExhaustionPropagates ==
    \A i \in CallsOf("create_field") :
        (calls[i].tier = "minimal" /\ ~calls[i].ok) =>
            /\ i = Len(calls)
            /\ pc = "a_error" /\ err \in {"RuntimeError", "TransportError"}
            /\ <<oi, fi>> = calls[i].decl
            /\ ret \in gwFields \cup {NoField}
            /\ \A f \in gwFields : f.id < nextId

\* C17 witness: the full, the no_icon and the minimal call for a field were
\* answered with an error status while declared fields were still to be looked at
C17_Witness ==
    /\ pc = "a_error" /\ err = "RuntimeError"
    /\ Len(calls) >= 3
    /\ calls[Len(calls)].op = "create_field" /\ calls[Len(calls)].tier = "minimal"
    /\ calls[Len(calls) - 1].op = "create_field" /\ calls[Len(calls) - 1].tier = "no_icon"
    /\ calls[Len(calls) - 2].op = "create_field" /\ calls[Len(calls) - 2].tier = "full"
    /\ fi < Len(obj.fields) \/ oi < Len(objects)

\* no object has two of the fields under spellings of one canonical name
UniqueNames(fields) ==
    \A f \in fields, g \in fields :
        (f.objectMetadataId = g.objectMetadataId /\ SameField(f.name, g.name)) => f = g

\* C18: when no object had two fields of one canonical name at the start of the
\* run and the gateway stores what is created, no object has two such fields in
\* any state of the run
C18_FieldNameUniqueness ==
    (faithful /\ UniqueNames(snapFields)) => UniqueNames(gwFields)

\* call i of the run is a create_object call for the object of that name
IsCreateOf(i, name) == calls[i].op = "create_object" /\ calls[i].name = name

\* call i of the run is an object listing that looked for that name
IsListingOf(i, name) == calls[i].op = "list_objects" /\ calls[i].name = name

\* C20: apply_schema issues no create_object call for a declared object that was
\* listed when the run started and exactly one for an object that was not; every
\* create_field call follows a listing in which the object it is declared under
\* was found and carries the id of the listed object of that name, and a field
\* stored by the call belongs to that object
C20_ObjectResolution ==
    /\ \A k \in 1..Len(objects) :
          LET name == objects[k].nameSingular
              listed == \E o \in snapObjects : o.nameSingular = name
          IN /\ \A i \in DOMAIN calls, j \in DOMAIN calls :
                    (IsCreateOf(i, name) /\ IsCreateOf(j, name)) => i = j
             /\ listed => \A i \in DOMAIN calls : ~IsCreateOf(i, name)
             /\ (~listed /\ \E j \in 1..(Len(calls)-1) : IsListingOf(j, name) /\ calls[j].ok) =>
                    \E i \in DOMAIN calls : IsCreateOf(i, name)
    /\ \A i \in DOMAIN calls :
          calls[i].op = "create_field" =>
              LET name == objects[calls[i].decl[1]].nameSingular
              IN /\ \E j \in 1..(i-1) : IsListingOf(j, name) /\ calls[j].ok /\ calls[j].found
                 /\ \E o \in gwObjects : o.nameSingular = name /\ o.id = calls[i].oid
                 /\ \A o \in gwObjects : o.id = calls[i].oid => o.nameSingular = name
                 /\ calls[i].ok =>
                       \E f \in gwFields :
                           /\ f \notin snapFields
                           /\ f.objectMetadataId = calls[i].oid /\ f.name = calls[i].name

\* C20 witness: deal was created and task was listed from the start; a field was
\* created for each of them under its own id
C20_Witness ==
    /\ pc = "a_done" /\ run = 1
    /\ \E i \in DOMAIN calls : IsCreateOf(i, Deal)
    /\ TaskObj \in snapObjects
    /\ \E i \in CallsOf("create_field"), j \in CallsOf("create_field") :
          /\ calls[i].decl[1] = 1 /\ calls[i].ok
          /\ calls[j].decl[1] = 2 /\ calls[j].ok /\ calls[j].oid = TaskObj.id
          /\ calls[i].oid # calls[j].oid

\* the document has no objects entry, or one that is not a list or is empty
EmptyDesiredState ==
    \/ ~schema.has_objects
    \/ ~schema.objects.list
    \/ schema.objects.items = <<>>

\* C21: for a document whose objects entry is missing, not a list or an empty
\* list, apply_schema ends in the ValueError having issued no gateway call, with
\* the remote objects and fields as they were
C21_EmptyStateRejected ==
    (pc # "a_start" /\ EmptyDesiredState) =>
        /\ pc = "a_error" /\ err = "ValueError"
        /\ calls = <<>>
        /\ run = 1
        /\ gwObjects = snapObjects /\ gwFields = snapFields

\* C21 witness: a document whose objects entry is not a list was rejected while
\* the remote service held objects and fields
C21_Witness ==
    /\ pc = "a_error" /\ err = "ValueError"
    /\ schema = Document(TRUE, NotAList)
    /\ gwObjects # {} /\ gwFields # {}
    /\ calls = <<>>

----------------------------------------------------------------------------
(* main.py: the data frame and type inference *)

\* pd.isna(v): None and NaN are missing
IsNa(v) == v.kind \in {"null", "nan"}

\* the non-missing values of a column (series.dropna())
RECURSIVE DropNa(_)
DropNa(series) ==
    IF series = <<>> THEN <<>>
    ELSE IF IsNa(Head(series)) THEN DropNa(Tail(series))
    ELSE <<Head(series)>> \o DropNa(Tail(series))

LowerStr(t) == [i \in 1..Len(t) |-> Lower(t[i])]

BooleanVocabulary ==
    {<<"t","r","u","e">>, <<"f","a","l","s","e">>, <<"0">>, <<"1">>,
     <<"y","e","s">>, <<"n","o">>}

\* a run of digits in which single underscores may separate digits
DigitPart(u) ==
    /\ u # <<>>
    /\ \A i \in 1..Len(u) : u[i] \in Digits \cup {"_"}
    /\ u[1] \in Digits /\ u[Len(u)] \in Digits
    /\ \A i \in 1..(Len(u)-1) : ~(u[i] = "_" /\ u[i+1] = "_")

\* the text without an optional leading sign
Unsigned(t) == IF t # <<>> /\ t[1] \in {"+", "-"} THEN Tail(t) ELSE t

\* the decimal literal of float(): mant is the text before an exponent marker,
\* expo the text after it (<<>> without marker), whole and frac the digits
\* around the point
FloatParts(u) ==
    LET marks == {i \in 1..Len(u) : u[i] \in {"e", "E"}}
        k == IF marks = {} THEN Len(u) + 1 ELSE CHOOSE i \in marks : \A m \in marks : i <= m
        mant == SubSeq(u, 1, k-1)
        dots == {i \in 1..Len(mant) : mant[i] = "."}
        d == IF dots = {} THEN Len(mant) + 1 ELSE CHOOSE i \in dots : \A m \in dots : i <= m
    IN [marked |-> marks # {},
        expo |-> SubSeq(u, k+1, Len(u)),
        whole |-> SubSeq(mant, 1, d-1),
        frac |-> SubSeq(mant, d+1, Len(mant))]

\* the words float() accepts next to decimal literals
FloatWords == {<<"i","n","f">>, <<"i","n","f","i","n","i","t","y">>, <<"n","a","n">>}

\* float(text) succeeds: blanks around, an optional sign, then inf, infinity or
\* nan in any case, or digits with at most one point and an optional exponent
ParsesAsFloat(text) ==
    LET u == Unsigned(Strip(text))
        parts == FloatParts(u)
    IN \/ LowerStr(u) \in FloatWords
       \/ /\ parts.whole = <<>> \/ DigitPart(parts.whole)
          /\ parts.frac = <<>> \/ DigitPart(parts.frac)
          /\ parts.whole # <<>> \/ parts.frac # <<>>
          /\ parts.marked => DigitPart(Unsigned(parts.expo))

\* the number written by a run of digits
RECURSIVE DigitsValue(_)
DigitsValue(u) ==
    IF u = <<>> THEN 0
    ELSE LET c == u[Len(u)]
             rest == DigitsValue(SubSeq(u, 1, Len(u)-1))
         IN IF c = "_" THEN rest
            ELSE 10 * rest + ((CHOOSE i \in 1..10 : DigitChars[i] = c) - 1)

\* float(text).is_integer() for a text float() accepts: inf and nan are not
\* integers; a decimal literal is one when no non-zero digit is left behind the
\* point after the exponent has moved it
FloatIsInteger(text) ==
    LET u == Unsigned(Strip(text))
        parts == FloatParts(u)
        digits(q) == SelectSeq(q, LAMBDA c : c # "_")
        whole == digits(parts.whole)
        frac == digits(parts.frac)
        e == IF ~parts.marked THEN 0
             ELSE IF parts.expo[1] = "-" THEN 0 - DigitsValue(Unsigned(parts.expo))
             ELSE DigitsValue(Unsigned(parts.expo))
    IN /\ LowerStr(u) \notin FloatWords
       /\ \A i \in 1..Len(frac) : i > e => frac[i] = "0"
       /\ \A i \in 1..Len(whole) : (Len(whole) - i) < (0 - e) => whole[i] = "0"

\* is_floatlike: float(x) does not raise
IsFloatLike(v) ==
    \/ v.kind \in {"num", "bool", "float"}
    \/ v.kind = "str" /\ ParsesAsFloat(v.s)

\* is_intlike: float(x) does not raise and is an integer
IsIntLike(v) ==
    \/ v.kind \in {"num", "bool"}
    \/ v.kind \in {"str", "float"} /\ ParsesAsFloat(v.s) /\ FloatIsInteger(v.s)

\* the column names of line 175
IdNames == {ExternalId, <<"i","d">>, <<"u","u","i","d">>}

\* mutant: the numeric test comes before the boolean test
infer_number_first(series, name) ==
    LET sv == DropNa(series)
    IN IF sv = <<>> THEN "TEXT"
       ELSE IF \A i \in 1..Len(sv) : IsFloatLike(sv[i]) THEN "NUMBER"
       ELSE IF \A i \in 1..Len(sv) : LowerStr(StrOf(sv[i])) \in BooleanVocabulary
       THEN "BOOLEAN"
       ELSE "TEXT"

\* infer_twenty_type(series), name being series.name
infer_twenty_type(series, name) ==
    LET sv == DropNa(series)
    IN IF sv = <<>> THEN "TEXT"
       ELSE IF \A i \in 1..Len(sv) : LowerStr(StrOf(sv[i])) \in BooleanVocabulary
       THEN "BOOLEAN"
       ELSE IF \A i \in 1..Len(sv) : IsIntLike(sv[i]) THEN "NUMBER"
       ELSE IF \A i \in 1..Len(sv) : IsFloatLike(sv[i]) THEN "NUMBER"
       ELSE IF name # <<>> /\ LowerStr(name) \in IdNames THEN "TEXT"
       ELSE "TEXT"

\* df[col]: the cells of the column, one per row
Column(frame, j) == [i \in 1..Len(frame.cells) |-> frame.cells[i][j]]

\* line 311: None if pd.isna(v) else v
Sanitize(v) == IF IsNa(v) THEN Null ELSE v

\* lines 306-311: the row as a dict keyed by the slugified column names; of two
\* columns with the same slug the later one gives the value
RowDict(frame, i) ==
    LET keys == {slugify(frame.columns[j]) : j \in 1..Len(frame.columns)}
        last(k) == CHOOSE j \in 1..Len(frame.columns) :
                      /\ slugify(frame.columns[j]) = k
                      /\ \A m \in 1..Len(frame.columns) :
                            slugify(frame.columns[m]) = k => m <= j
    IN [k \in keys |-> Sanitize(frame.cells[i][last(k)])]

\* the optional attributes main.py's create_field always sends
AllOptional == {"description", "icon", "defaultValue", "isNullable", "settings", "options"}

----------------------------------------------------------------------------
(* main.py: upsert_record and the loop over the rows *)

RemoteRecord(id, data) == [id |-> id, data |-> data]

\* GET /rest/<plural>?filter[external_id]=ext: a gateway that filters answers with
\* the records whose stored external id reads ext
GwRecordsResponse(ext) ==
    {r \in gwRecords : /\ ExternalId \in DOMAIN r.data
                       /\ r.data[ExternalId].kind # "null"
                       /\ StrOf(r.data[ExternalId]) = ext}

\* PATCH /rest/<plural>/<id>: the keys of the payload replace the stored values
GwPatched(r, data) ==
    [r EXCEPT !.data = [k \in DOMAIN r.data \cup DOMAIN data |->
                           IF k \in DOMAIN data THEN data[k] ELSE r.data[k]]]

\* the variables of apply_schema and of the metadata part of main()
metadataVars == <<gwObjects, gwFields, gwFilters, schema, oi, fi, object_id,
                  current_names, payload, ret, snapObjects, snapFields, argv, df>>

MainRaise(kind) ==
    /\ pc' = "m_error"
    /\ err' = kind

\* for _, r in df.iterrows(): the next row, or the end of the run
UpsertLoop ==
    /\ pc = "u_loop"
    /\ IF ri < Len(rows)
       THEN /\ ri' = ri + 1
            /\ row' = rows[ri + 1]
            /\ pc' = "u_validate"
       ELSE /\ pc' = "m_done"
            /\ UNCHANGED <<ri, row>>
    /\ snapRecords' = gwRecords
    /\ matches' = <<>>
    /\ UNCHANGED <<err, run, calls, gwRecords, faithful, nextId, rows, metadataVars>>

\* upsert_record, lines 250-252: the external id is checked before any call
UpsertValidate ==
    /\ pc = "u_validate"
    /\ IF ExtOf(row, ExternalId) = <<>>
       THEN MainRaise("ValueError")
       ELSE pc' = "u_query" /\ err' = err
    /\ UNCHANGED <<run, calls, gwRecords, faithful, nextId, snapRecords, rows, ri, row,
                   matches, metadataVars>>

\* mutant: a match without id is treated as no match
UpsertBranchCreatesWithoutId(m) ==
    IF m = <<>> \/ m[1].id = 0 THEN "create" ELSE "update"

\* upsert_record, lines 255-262: update the first match, which must carry an id,
\* or create when there is no match
UpsertBranch(m) ==
    IF m = <<>> THEN "create"
    ELSE IF m[1].id = 0 THEN "raise"
    ELSE "update"

\* the answers of the gateway to the query: the filtered records cut to limit=1,
\* or (against its stored state) a record that carries no id
QueryAnswers(ext) ==
    LET found == GwRecordsResponse(ext)
    IN [ok : {TRUE}, faithful : {TRUE},
        records : IF found = {} THEN {<<>>} ELSE {<<rec>> : rec \in found}]
       \cup [ok : {TRUE}, faithful : {FALSE}, records : {<<RemoteRecord(0, row)>>}]
       \cup [ok : {FALSE}, faithful : {TRUE}, records : {<<>>}]

\* matches = list_records(...), then the choice between update and create
UpsertQuery ==
    /\ pc = "u_query"
    /\ \E answer \in QueryAnswers(ExtOf(row, ExternalId)), outcome \in Outcomes :
         /\ answer.ok <=> outcome = "ok"
         /\ calls' = Append(calls, [op |-> "list_records", ok |-> answer.ok,
                                    ri |-> ri, ext |-> ExtOf(row, ExternalId)])
         /\ faithful' = (faithful /\ answer.faithful)
         /\ IF ~answer.ok
            THEN MainRaise(ErrorOf(outcome)) /\ UNCHANGED matches
            ELSE /\ matches' = answer.records
                 /\ CASE UpsertBranch(answer.records) = "create" ->
                           pc' = "u_create" /\ err' = err
                      [] UpsertBranch(answer.records) = "update" ->
                           pc' = "u_update" /\ err' = err
                      [] OTHER -> MainRaise("RuntimeError")
    /\ UNCHANGED <<run, gwRecords, nextId, snapRecords, rows, ri, row, metadataVars>>

\* update_record(name_plural, rec_id, row)
UpsertUpdate ==
    /\ pc = "u_update"
    /\ \E outcome \in Outcomes :
         LET rec_id == matches[1].id
         IN /\ calls' = Append(calls, [op |-> "update_record", ok |-> outcome = "ok",
                                       ri |-> ri, id |-> rec_id, payload |-> row])
            /\ IF outcome = "ok"
               THEN /\ gwRecords' = {IF r.id = rec_id THEN GwPatched(r, row) ELSE r :
                                       r \in gwRecords}
                    /\ pc' = "u_loop"
                    /\ err' = err
               ELSE /\ MainRaise(ErrorOf(outcome))
                    /\ UNCHANGED gwRecords
    /\ UNCHANGED <<run, faithful, nextId, snapRecords, rows, ri, row, matches, metadataVars>>

\* create_record(name_plural, row)
UpsertCreate ==
    /\ pc = "u_create"
    /\ \E outcome \in Outcomes :
         /\ calls' = Append(calls, [op |-> "create_record", ok |-> outcome = "ok",
                                    ri |-> ri, id |-> 0, payload |-> row])
         /\ IF outcome = "ok"
            THEN /\ gwRecords' = gwRecords \cup {RemoteRecord(nextId, row)}
                 /\ nextId' = nextId + 1
                 /\ pc' = "u_loop"
                 /\ err' = err
            ELSE /\ MainRaise(ErrorOf(outcome))
                 /\ UNCHANGED <<gwRecords, nextId>>
    /\ UNCHANGED <<run, faithful, snapRecords, rows, ri, row, matches, metadataVars>>

\* the operator runs the upserts again with the same rows
UpsertRerun ==
    /\ pc \in {"m_done", "m_error"}
    /\ argv = <<>>
    /\ run < MaxRuns
    /\ run' = run + 1
    /\ pc' = "u_loop"
    /\ err' = "none"
    /\ calls' = <<>>
    /\ ri' = 0 /\ row' = NoRow /\ matches' = <<>>
    /\ snapRecords' = gwRecords
    /\ UNCHANGED <<gwRecords, faithful, nextId, rows, metadataVars>>

\* the values of the external id column, and of a second column "v"
ExtValues == {Null, Str(<<>>), Str(<<" ">>), Str(<<"a">>), Str(<<" ", "a">>), Num(0), Num(7)}
VKey == <<"v">>
VValues == {Null, Num(1)}

RowOf(ext, v) == [k \in {ExternalId, VKey} |-> IF k = ExternalId THEN ext ELSE v]

\* rows handed to upsert_record: with an external id value, or without the key
UpsertRows ==
    {RowOf(e, v) : e \in ExtValues, v \in VValues}
    \cup {[k \in {VKey} |-> v] : v \in VValues}

\* collections a run may start from: at most one record per external id
RecordStates ==
    {{},
     {RemoteRecord(1, RowOf(Str(<<"a">>), Num(1)))},
     {RemoteRecord(1, RowOf(Str(<<"a">>), Null)), RemoteRecord(2, RowOf(Num(7), Num(1)))}}

InitUpsert ==
    /\ pc = "u_loop" /\ err = "none" /\ run = 1 /\ calls = <<>>
    /\ rows \in SeqsUpTo(UpsertRows, MaxRows)
    /\ gwRecords \in RecordStates
    /\ nextId = FreshId({}, {}, gwRecords)
    /\ snapRecords = gwRecords
    /\ faithful = TRUE
    /\ ri = 0 /\ row = NoRow /\ matches = <<>>
    /\ gwObjects = {} /\ gwFields = {} /\ gwFilters = TRUE
    /\ snapObjects = {} /\ snapFields = {}
    /\ schema = Document(FALSE, YamlList(<<>>))
    /\ oi = 0 /\ fi = 0 /\ object_id = 0 /\ current_names = {}
    /\ payload = NoPayload /\ ret = NoField
    /\ argv = <<>> /\ df = NoFrame

NextUpsert ==
    \/ UpsertLoop
    \/ UpsertValidate
    \/ UpsertQuery
    \/ UpsertUpdate
    \/ UpsertCreate
    \/ UpsertRerun

SpecUpsert == InitUpsert /\ [][NextUpsert]_vars

----------------------------------------------------------------------------
(* Properties of upsert_record *)

RowCalls(op) == {i \in DOMAIN calls : calls[i].op = op /\ calls[i].ri = ri}

\* the external id of the row is missing, null, or empty after trimming
BlankExternalId(r) ==
    \/ ExternalId \notin DOMAIN r
    \/ r[ExternalId].kind = "null"
    \/ r[ExternalId].kind = "str" /\ Strip(r[ExternalId].s) = <<>>

\* upsert_record has returned or raised for the current row
UpsertEnded == ri >= 1 /\ pc \in {"u_loop", "m_error"}

\* C3: for a row with a non-empty external id upsert_record issues exactly one
\* query; a first match with an id gives exactly one update_record call on that id
\* and no create_record call, no match gives exactly one create_record call and no
\* update_record call
C3_UpsertCorrect ==
    (UpsertEnded /\ ~BlankExternalId(row)) =>
        /\ Cardinality(RowCalls("list_records")) = 1
        /\ \A q \in RowCalls("list_records") :
              /\ (calls[q].ok /\ matches # <<>> /\ matches[1].id # 0) =>
                    /\ Cardinality(RowCalls("update_record")) = 1
                    /\ \A u \in RowCalls("update_record") :
                          u = q + 1 /\ calls[u].id = matches[1].id
                    /\ RowCalls("create_record") = {}
              /\ (calls[q].ok /\ matches = <<>>) =>
                    /\ Cardinality(RowCalls("create_record")) = 1
                    /\ \A c \in RowCalls("create_record") : c = q + 1
                    /\ RowCalls("update_record") = {}

\* the external ids stored in the collection, as (id, value) pairs
StoredExternalIds ==
    {<<r.id, r.data[ExternalId]>> : r \in {x \in gwRecords : ExternalId \in DOMAIN x.data}}

\* C6: against a gateway that filters by the external id and stores what is
\* created, the collection holds at most one record per external id
C6_NoDuplicateRecords ==
    faithful =>
        \A x \in StoredExternalIds, y \in StoredExternalIds : x[2] = y[2] => x[1] = y[1]

\* C10: a row whose external id is missing, null or empty after trimming makes
\* upsert_record raise the validation error with no gateway call issued for it
\* and the collection unchanged
C10_ExternalIdValidation ==
    (ri >= 1 /\ pc # "u_validate" /\ BlankExternalId(row)) =>
        /\ pc = "m_error" /\ err = "ValueError"
        /\ \A i \in DOMAIN calls : calls[i].op \in {"list_records", "create_record",
                                                    "update_record"} => calls[i].ri # ri
        /\ gwRecords = snapRecords

\* C10 witness: a row holding only blanks as external id was rejected after an
\* earlier row of the run had been stored
C10_Witness ==
    /\ pc = "m_error" /\ err = "ValueError"
    /\ ExternalId \in DOMAIN row /\ row[ExternalId] = Str(<<" ">>)
    /\ ri = 2 /\ calls # <<>>

\* C16: when the first match of the query carries no id, upsert_record ends in
\* the RuntimeError right after the query, with no update_record and no
\* create_record call for the row and the collection unchanged
C16_MatchWithoutId ==
    (matches # <<>> /\ matches[1].id = 0) =>
        /\ pc = "m_error" /\ err = "RuntimeError"
        /\ calls[Len(calls)].op = "list_records" /\ calls[Len(calls)].ok
        /\ calls[Len(calls)].ri = ri
        /\ RowCalls("update_record") = {}
        /\ RowCalls("create_record") = {}
        /\ gwRecords = snapRecords

\* C16 witness: the second row of a run met a match without id after the first
\* row had been created
C16_Witness ==
    /\ pc = "m_error" /\ ri = 2
    /\ matches # <<>> /\ matches[1].id = 0
    /\ calls[2].op = "create_record" /\ calls[2].ok

----------------------------------------------------------------------------
(* main.py: main() up to the loop over the rows *)

\* lines 274-275: the stem of the csv path, or the second argument
name_singular == IF Len(argv) >= 2 THEN slugify(argv[2]) ELSE slugify(argv[1])

\* find_object of main.py
find_object(name) == {o \in gwObjects : o.nameSingular = name}

\* get_fields_for_object: whatever the gateway answers to the filtered request
get_fields_for_object(object_metadata_id) == GwFieldsResponse(object_metadata_id)

\* ensure_fields: the first column from index start on that is not skipped
\* (its slug is no existing name, or slugify raises for it)
FirstColumn(columns, start, names) ==
    LET todo == {j \in start..Len(columns) :
                    SlugifyRaises(columns[j]) \/ slugify(columns[j]) \notin names}
    IN IF todo = {} THEN Len(columns) + 1 ELSE CHOOSE j \in todo : \A k \in todo : j <= k

\* the payload ensure_fields hands to create_field for column j
ColumnPayload(object_metadata_id, j) ==
    [type |-> infer_twenty_type(Column(df, j), df.columns[j]),
     objectMetadataId |-> object_metadata_id,
     name |-> slugify(df.columns[j]),
     label |-> df.columns[j],
     opts |-> AllOptional]

recordVars == <<gwRecords, snapRecords, row, matches>>

\* ensure_fields from column start on, up to the next create_field call, the
\* ValueError of slugify, or the start of the loop over the rows
EnsureFields(start, names) ==
    LET j == FirstColumn(df.columns, start, names)
    IN /\ current_names' = names
       /\ IF j > Len(df.columns)
          THEN /\ pc' = "u_loop"
               /\ err' = err
               /\ fi' = 0
               /\ payload' = NoPayload
               /\ rows' = [i \in 1..Len(df.cells) |-> RowDict(df, i)]
               /\ ri' = 0
          ELSE IF SlugifyRaises(df.columns[j])
          THEN /\ MainRaise("ValueError")
               /\ UNCHANGED <<fi, payload, rows, ri>>
          ELSE /\ pc' = "b_create_field"
               /\ err' = err
               /\ fi' = j
               /\ payload' = ColumnPayload(object_id, j)
               /\ UNCHANGED <<rows, ri>>

\* main, lines 269-281: names from the arguments, the frame must have external_id
BootStart ==
    /\ pc = "b_start"
    /\ IF SlugifyRaises(IF Len(argv) >= 2 THEN argv[2] ELSE argv[1])
          \/ ExternalId \notin Range(df.columns)
       THEN MainRaise("ValueError")
       ELSE pc' = "b_find" /\ err' = err
    /\ UNCHANGED <<run, calls, gwObjects, gwFields, gwFilters, faithful, nextId, schema,
                   oi, fi, object_id, current_names, payload, ret, snapObjects,
                   snapFields, argv, df, rows, ri, recordVars>>

\* obj = find_object(name_singular), first lookup
BootFind ==
    /\ pc = "b_find"
    /\ \E outcome \in Outcomes :
         LET found == find_object(name_singular)
         IN /\ calls' = Append(calls, [op |-> "list_objects", ok |-> outcome = "ok",
                                       name |-> name_singular,
                                       found |-> outcome = "ok" /\ found # {}])
            /\ IF outcome # "ok" THEN MainRaise(ErrorOf(outcome)) /\ UNCHANGED object_id
               ELSE IF found = {}
               THEN pc' = "b_create" /\ UNCHANGED <<err, object_id>>
               ELSE \E o \in found :
                    /\ pc' = "b_get_fields"
                    /\ object_id' = o.id
                    /\ err' = err
    /\ UNCHANGED <<run, gwObjects, gwFields, gwFilters, faithful, nextId, schema, oi, fi,
                   current_names, payload, ret, snapObjects, snapFields, argv, df, rows,
                   ri, recordVars>>

\* create_object(...): the gateway may answer 2xx and yet not list the object
BootCreateObject ==
    /\ pc = "b_create"
    /\ \E outcome \in Outcomes \cup {"ok_not_listed"} :
         /\ calls' = Append(calls, [op |-> "create_object",
                                    ok |-> outcome \in {"ok", "ok_not_listed"},
                                    name |-> name_singular])
         /\ CASE outcome = "ok" ->
                   /\ gwObjects' = gwObjects \cup {GwStoredObject(name_singular)}
                   /\ nextId' = nextId + 1
                   /\ pc' = "b_refind"
                   /\ UNCHANGED <<err, faithful>>
              [] outcome = "ok_not_listed" ->
                   /\ faithful' = FALSE
                   /\ pc' = "b_refind"
                   /\ UNCHANGED <<err, gwObjects, nextId>>
              [] OTHER ->
                   /\ MainRaise(ErrorOf(outcome))
                   /\ UNCHANGED <<gwObjects, nextId, faithful>>
    /\ UNCHANGED <<run, gwFields, gwFilters, schema, oi, fi, object_id, current_names,
                   payload, ret, snapObjects, snapFields, argv, df, rows, ri, recordVars>>

\* obj = find_object(name_singular) after the create
BootRefind ==
    /\ pc = "b_refind"
    /\ \E outcome \in Outcomes :
         LET found == find_object(name_singular)
         IN /\ calls' = Append(calls, [op |-> "list_objects", ok |-> outcome = "ok",
                                       name |-> name_singular,
                                       found |-> outcome = "ok" /\ found # {}])
            /\ IF outcome # "ok" THEN MainRaise(ErrorOf(outcome)) /\ UNCHANGED object_id
               ELSE IF found = {} THEN MainRaise("RuntimeError") /\ UNCHANGED object_id
               ELSE \E o \in found :
                    /\ pc' = "b_get_fields"
                    /\ object_id' = o.id
                    /\ err' = err
    /\ UNCHANGED <<run, gwObjects, gwFields, gwFilters, faithful, nextId, schema, oi, fi,
                   current_names, payload, ret, snapObjects, snapFields, argv, df, rows,
                   ri, recordVars>>

\* ensure_fields: existing = get_fields_for_object(object_metadata_id), then the
\* loop over the columns
BootGetFields ==
    /\ pc = "b_get_fields"
    /\ \E outcome \in Outcomes :
         /\ calls' = Append(calls, [op |-> "list_fields", ok |-> outcome = "ok",
                                    oid |-> object_id, params |-> object_id])
         /\ IF outcome # "ok"
            THEN /\ MainRaise(ErrorOf(outcome))
                 /\ UNCHANGED <<fi, current_names, payload, rows, ri>>
            ELSE EnsureFields(1, {f.name : f \in get_fields_for_object(object_id)})
    /\ UNCHANGED <<run, gwObjects, gwFields, gwFilters, faithful, nextId, schema, oi,
                   object_id, ret, snapObjects, snapFields, argv, df, recordVars>>

\* mutant: ensure_fields logs a RuntimeError of create_field and goes on
EnsureCatchesRuntimeError(outcome) == outcome = "http_error"

\* ensure_fields, lines 197-204: create_field is called outside any try block
EnsureCatches(outcome) == FALSE

\* create_field(...) of main.py: one POST, any failure leaves ensure_fields
BootCreateField ==
    /\ pc = "b_create_field"
    /\ \E outcome \in Outcomes :
         /\ calls' = Append(calls, [op |-> "create_field", ok |-> outcome = "ok",
                                    tier |-> "full", oid |-> payload.objectMetadataId,
                                    name |-> payload.name, opts |-> payload.opts,
                                    decl |-> <<0, fi>>])
         /\ IF outcome = "ok"
            THEN /\ gwFields' = FieldsAfterCreate(payload)
                 /\ nextId' = nextId + 1
                 /\ ret' = GwStoredField(payload)
                 /\ EnsureFields(fi + 1, current_names)
            ELSE IF EnsureCatches(outcome)
            THEN /\ EnsureFields(fi + 1, current_names)
                 /\ UNCHANGED <<gwFields, nextId, ret>>
            ELSE /\ MainRaise(ErrorOf(outcome))
                 /\ UNCHANGED <<gwFields, nextId, ret, fi, current_names, payload, rows, ri>>
    /\ UNCHANGED <<run, gwObjects, gwFilters, faithful, schema, oi, object_id,
                   snapObjects, snapFields, argv, df, recordVars>>

\* command lines: the csv stem alone, or with singular and plural
BootArgvs == {<< <<"D","e","a","l">> >>,
              << <<"x">>, <<"D","e","a","l">>, <<"D","e","a","l","s">> >>}

\* column "D v" has the slug d_v
DvColumn == <<"D"," ","v">>

\* data frames: the columns, and up to MaxRows rows of cells; the columns
\* "D v" and "d_v" of the last frames have the same slug
Frames ==
    {[columns |-> <<ExternalId>>, cells |-> c] :
        c \in SeqsUpTo({<<e>> : e \in {NaN, Str(<<"a">>), Num(0)}}, MaxRows)}
    \cup {[columns |-> <<ExternalId, DvColumn>>, cells |-> c] :
        c \in SeqsUpTo({<<e, v>> : e \in {NaN, Str(<<"a">>), Str(<<" ","a">>)},
                                   v \in {NaN, Num(1)}}, MaxRows)}
    \cup {[columns |-> <<DvColumn>>, cells |-> c] :
        c \in SeqsUpTo({<<v>> : v \in {Num(1)}}, MaxRows)}
    \cup {[columns |-> <<ExternalId, DvColumn, d_v>>, cells |-> c] :
        c \in SeqsUpTo({<<Str(<<"a">>), NaN, Num(1)>>}, MaxRows)}

\* remote metadata a bootstrap run may start from
BootRemoteStates ==
    {st \in [objects : {{}, {TaskObj}, {DealObj, TaskObj}},
             fields : SUBSET {RemoteField(3, 1, d_v), RemoteField(4, 2, d_v)}] :
        \A f \in st.fields : \E o \in st.objects : o.id = f.objectMetadataId}

InitBoot ==
    /\ pc = "b_start" /\ err = "none" /\ run = 1 /\ calls = <<>>
    /\ argv \in BootArgvs
    /\ df \in Frames
    /\ gwFilters \in BOOLEAN
    /\ \E st \in BootRemoteStates :
         /\ gwObjects = st.objects
         /\ gwFields = st.fields
    /\ gwRecords \in {{}, {RemoteRecord(5, RowOf(Str(<<"a">>), Num(1)))}}
    /\ nextId = FreshId(gwObjects, gwFields, gwRecords)
    /\ snapObjects = gwObjects /\ snapFields = gwFields /\ snapRecords = gwRecords
    /\ faithful = TRUE
    /\ schema = Document(FALSE, YamlList(<<>>))
    /\ oi = 0 /\ fi = 0 /\ object_id = 0 /\ current_names = {}
    /\ payload = NoPayload /\ ret = NoField
    /\ rows = <<>> /\ ri = 0 /\ row = NoRow /\ matches = <<>>

NextBoot ==
    \/ BootStart
    \/ BootFind
    \/ BootCreateObject
    \/ BootRefind
    \/ BootGetFields
    \/ BootCreateField
    \/ UpsertLoop
    \/ UpsertValidate
    \/ UpsertQuery
    \/ UpsertUpdate
    \/ UpsertCreate

SpecBoot == InitBoot /\ [][NextBoot]_vars

\* the two reconcilers: apply_schema and the metadata part of main()
InitRecon == InitApply \/ InitBoot
NextRecon == NextApply \/ NextBoot
SpecRecon == InitRecon /\ [][NextRecon]_vars

----------------------------------------------------------------------------
(* main.py: infer_twenty_type applied to the column of a frame *)

\* values of a column: missing, the texts of the vocabulary in either case,
\* number texts, another text, and an int, a float and a bool
InferCells ==
    {NaN,
     Str(<<"t","r","u","e">>), Str(<<"f","a","l","s","e">>), Str(<<"Y","E","S">>),
     Str(<<"1">>), Str(<<"2">>), Str(<<"2",".","5">>), Str(<<"1","e","3">>),
     Str(<<"x">>),
     Num(1), Float(<<"1",".","0">>), Bool(TRUE)}

InferNames == {ExternalId, VKey}

\* frames of one column with up to MaxCells values
InferFrames ==
    {[columns |-> <<name>>, cells |-> [i \in 1..Len(q) |-> <<q[i]>>]] :
        name \in InferNames, q \in SeqsUpTo(InferCells, MaxCells)}

\* the variables infer_twenty_type does not touch
inferFrame == <<err, calls, gwObjects, gwFields, gwRecords, gwFilters, faithful, nextId,
                schema, oi, object_id, current_names, snapObjects, snapFields,
                snapRecords, argv, rows, ri, row, matches>>

\* ensure_fields, line 195: field_type = infer_twenty_type(df[col])
InferType ==
    /\ pc = "i_infer"
    /\ pc' = "i_done"
    /\ fi' = 1
    /\ payload' = [NoPayload EXCEPT !.type = infer_twenty_type(Column(df, 1), df.columns[1])]
    /\ UNCHANGED <<run, df, ret, inferFrame>>

\* the same values are handed to infer_twenty_type again, as the column of the
\* other name; ret keeps the type inferred before
InferAgain ==
    /\ pc = "i_done"
    /\ run < MaxRuns
    /\ run' = run + 1
    /\ pc' = "i_infer"
    /\ fi' = 0
    /\ ret' = [NoField EXCEPT !.type = payload.type]
    /\ payload' = NoPayload
    /\ df' = [df EXCEPT !.columns = <<CHOOSE name \in InferNames : name # df.columns[1]>>]
    /\ UNCHANGED inferFrame

InitInfer ==
    /\ pc = "i_infer" /\ err = "none" /\ run = 1 /\ calls = <<>>
    /\ df \in InferFrames
    /\ gwObjects = {} /\ gwFields = {} /\ gwRecords = {} /\ gwFilters = TRUE
    /\ faithful = TRUE /\ nextId = 1
    /\ snapObjects = {} /\ snapFields = {} /\ snapRecords = {}
    /\ schema = Document(FALSE, YamlList(<<>>))
    /\ oi = 0 /\ fi = 0 /\ object_id = 0 /\ current_names = {}
    /\ payload = NoPayload /\ ret = NoField
    /\ argv = <<>> /\ rows = <<>> /\ ri = 0 /\ row = NoRow /\ matches = <<>>

NextInfer ==
    \/ InferType
    \/ InferAgain

SpecInfer == InitInfer /\ [][NextInfer]_vars

\* the non-missing values of the column handed to infer_twenty_type
Present == {Column(df, 1)[i] : i \in {k \in 1..Len(df.cells) : ~IsNa(Column(df, 1)[k])}}

\* the lower-cased textual form of the value is in the vocabulary
InVocabulary(v) ==
    LowerStr(StrOf(v)) \in {<<"t","r","u","e">>, <<"f","a","l","s","e">>, <<"0">>, <<"1">>,
                            <<"y","e","s">>, <<"n","o">>}

\* C12: infer_twenty_type returns text when the column has no non-missing value;
\* otherwise boolean exactly when the textual form of every non-missing value is
\* in the vocabulary, otherwise numeric exactly when every non-missing value
\* parses as a number, otherwise text; the same values under another column name
\* give the same type
C12_InferencePriority ==
    pc = "i_done" =>
        /\ payload.type =
              IF Present = {} THEN "TEXT"
              ELSE IF \A v \in Present : InVocabulary(v) THEN "BOOLEAN"
              ELSE IF \A v \in Present : IsFloatLike(v) THEN "NUMBER"
              ELSE "TEXT"
        /\ run >= 2 => payload.type = ret.type

\* C12 witness: the column ["1", "2.5", "x"] was inferred as text, the second
\* time under the other column name
C12_Witness ==
    /\ pc = "i_done" /\ run = 2
    /\ Column(df, 1) = <<Str(<<"1">>), Str(<<"2",".","5">>), Str(<<"x">>)>>
    /\ payload.type = "TEXT"

----------------------------------------------------------------------------
(* Properties of main() *)

RecordWrites == CallsOf("create_record") \cup CallsOf("update_record")

RecordCalls == CallsOf("list_records") \cup RecordWrites

MetadataCalls ==
    CallsOf("list_objects") \cup CallsOf("create_object") \cup CallsOf("list_fields")
    \cup CallsOf("create_field")

\* C19: in a run of main() every record call comes after all metadata calls, all
\* of which succeeded: the object was found in the last object listing, the
\* fields were listed and every create_field call has returned; a run in which
\* the frame lacks external_id, a metadata call failed or the object was absent
\* from the listing after its creation issues no record call
C19_StructureBeforeData ==
    /\ RecordCalls # {} =>
          /\ \A m \in MetadataCalls : calls[m].ok /\ \A i \in RecordCalls : m < i
          /\ \E m \in CallsOf("list_objects") :
                /\ calls[m].found
                /\ \A k \in CallsOf("list_objects") : k <= m
          /\ CallsOf("list_fields") # {}
          /\ ExternalId \in Range(df.columns)
    /\ pc \in {"b_start", "b_find", "b_create", "b_refind", "b_get_fields", "b_create_field"}
          => RecordCalls = {}

\* C19 witness: the object and a field were created and then a record was stored
C19_Witness ==
    /\ \E i \in CallsOf("create_object") : calls[i].ok
    /\ \E i \in CallsOf("create_field") : calls[i].ok
    /\ \E i \in CallsOf("create_record") : calls[i].ok
    /\ pc = "m_done"

\* C11: the payload of every create_record and update_record call has exactly the
\* (slugified) columns of the frame as keys, and carries for every column of the
\* row an explicit null when the cell is missing and the cell's value otherwise
C11_NullPropagation ==
    \A i \in RecordWrites :
        LET p == calls[i].payload
            r == df.cells[calls[i].ri]
        IN /\ DOMAIN p = {slugify(df.columns[j]) : j \in 1..Len(df.columns)}
           /\ \A j \in 1..Len(df.columns) :
                 p[slugify(df.columns[j])] = IF r[j] \in {NaN, Null} THEN Null ELSE r[j]

----------------------------------------------------------------------------
(* delete_twenty_object.py *)

\* hard = "--hard" in sys.argv[2:]
hard == \E i \in 2..Len(argv) : argv[i] = "--hard"

\* mutant: --hard overrides the refusal for non-custom objects
DeleteRefusesUnlessHard(o) == ~o.isCustom /\ ~hard

\* main, line 63: if not obj.get("isCustom")
DeleteRefuses(o) == ~o.isCustom

deleteFrame == <<gwFields, gwRecords, gwFilters, faithful, nextId, schema, oi, fi,
                 current_names, payload, ret, snapFields, snapRecords, df, rows, ri,
                 row, matches>>

DeleteRaise(kind) ==
    /\ pc' = "d_error"
    /\ err' = kind

\* mutant: an absent object is an error
AbsentRaises == "d_error"

\* main, lines 56-58: the object is not found, the script returns
AbsentReturns == "d_done"

\* mutant: a failed DELETE goes on to the deactivation
HardFailureFallsBack == "d_patch"

\* main, lines 76-79: a failed DELETE is raised again
HardFailureRaises == "d_error"

\* mutant: a failed PATCH is reported and the script returns
SoftFailureReturns == "d_done"

\* main, lines 87-90: a failed PATCH is raised again
SoftFailureRaises == "d_error"

\* obj = find_object(name_singular) and the two checks that follow it; the
\* refusal is a RuntimeError raised by the script itself
DeleteFind ==
    /\ pc = "d_find"
    /\ \E outcome \in Outcomes :
         LET found == {o \in gwObjects : o.nameSingular = argv[1]}
         IN /\ calls' = Append(calls, [op |-> "list_objects", ok |-> outcome = "ok",
                                       name |-> argv[1],
                                       found |-> outcome = "ok" /\ found # {}])
            /\ IF outcome # "ok" THEN DeleteRaise(ErrorOf(outcome)) /\ UNCHANGED object_id
               ELSE IF found = {}
               THEN pc' = AbsentReturns /\ UNCHANGED <<err, object_id>>
               ELSE \E o \in found :
                    /\ object_id' = o.id
                    /\ IF DeleteRefuses(o) THEN DeleteRaise("PolicyError")
                       ELSE /\ pc' = IF hard THEN "d_delete" ELSE "d_patch"
                            /\ err' = err
    /\ UNCHANGED <<run, gwObjects, snapObjects, argv, deleteFrame>>

\* http("DELETE", ...): a failure is printed and raised again
DeleteHard ==
    /\ pc = "d_delete"
    /\ \E outcome \in Outcomes :
         /\ calls' = Append(calls, [op |-> "DELETE", ok |-> outcome = "ok",
                                    id |-> object_id])
         /\ IF outcome = "ok"
            THEN /\ gwObjects' = {o \in gwObjects : o.id # object_id}
                 /\ pc' = "d_done"
                 /\ err' = err
            ELSE /\ pc' = HardFailureRaises
                 /\ err' = ErrorOf(outcome)
                 /\ UNCHANGED gwObjects
    /\ UNCHANGED <<run, object_id, snapObjects, argv, deleteFrame>>

\* http("PATCH", ..., json={"isActive": False}): a failure is printed and raised again
DeleteSoft ==
    /\ pc = "d_patch"
    /\ \E outcome \in Outcomes :
         /\ calls' = Append(calls, [op |-> "PATCH", ok |-> outcome = "ok",
                                    id |-> object_id, isActive |-> FALSE])
         /\ IF outcome = "ok"
            THEN /\ gwObjects' = {IF o.id = object_id THEN [o EXCEPT !.isActive = FALSE]
                                  ELSE o : o \in gwObjects}
                 /\ pc' = "d_done"
                 /\ err' = err
            ELSE /\ pc' = SoftFailureRaises
                 /\ err' = ErrorOf(outcome)
                 /\ UNCHANGED gwObjects
    /\ UNCHANGED <<run, object_id, snapObjects, argv, deleteFrame>>

\* the operator invokes the script again for the same object, with or without --hard
DeleteRerun ==
    /\ pc \in {"d_done", "d_error"}
    /\ run < MaxRuns
    /\ run' = run + 1
    /\ argv' \in {<<argv[1]>>, <<argv[1], "--hard">>}
    /\ pc' = "d_find"
    /\ err' = "none"
    /\ calls' = <<>>
    /\ object_id' = 0
    /\ snapObjects' = gwObjects
    /\ UNCHANGED <<gwObjects, deleteFrame>>

Note == <<"n","o","t","e">>

\* remote objects the guard may meet: deal and note custom, active or not; task
\* system-defined
DeleteRemoteStates ==
    {d \cup t \cup n :
        d \in {{}, {DealObj}, {[DealObj EXCEPT !.isActive = FALSE]}},
        t \in {{}, {TaskObj}, {[TaskObj EXCEPT !.isActive = FALSE]}},
        n \in {{}, {RemoteObject(3, Note, TRUE)}}}

InitDelete ==
    /\ pc = "d_find" /\ err = "none" /\ run = 1 /\ calls = <<>>
    /\ argv \in {<<n>> : n \in {Deal, Task}} \cup {<<n, "--hard">> : n \in {Deal, Task}}
    /\ gwObjects \in DeleteRemoteStates
    /\ snapObjects = gwObjects
    /\ gwFields = {} /\ gwRecords = {} /\ gwFilters = TRUE /\ faithful = TRUE
    /\ nextId = FreshId(gwObjects, {}, {})
    /\ snapFields = {} /\ snapRecords = {}
    /\ schema = Document(FALSE, YamlList(<<>>))
    /\ oi = 0 /\ fi = 0 /\ object_id = 0 /\ current_names = {}
    /\ payload = NoPayload /\ ret = NoField
    /\ df = NoFrame /\ rows = <<>> /\ ri = 0 /\ row = NoRow /\ matches = <<>>

NextDelete ==
    \/ DeleteFind
    \/ DeleteHard
    \/ DeleteSoft
    \/ DeleteRerun

SpecDelete == InitDelete /\ [][NextDelete]_vars

----------------------------------------------------------------------------
(* Properties of the two reconcilers and of the lifecycle guard *)

AtError == pc \in {"a_error", "m_error"}

\* C7: a create_object call follows a listing without the object; after it the
\* objects are listed again, and an object still absent from that listing ends
\* the run in the RuntimeError, with no field listing and no create_field call
\* after it
C7_RefetchIntegrity ==
    /\ \A j \in CallsOf("list_objects") :
          (calls[j].ok /\ ~calls[j].found /\ ~(j > 1 /\ calls[j-1].op = "create_object")) =>
              IF j = Len(calls) THEN pc \in {"a_create", "b_create"}
              ELSE calls[j+1].op = "create_object"
    /\ \A i \in CallsOf("create_object") :
          /\ i > 1 /\ calls[i-1].op = "list_objects" /\ calls[i-1].ok
          /\ ~calls[i-1].found /\ calls[i-1].name = calls[i].name
          /\ i = Len(calls) =>
                IF calls[i].ok THEN pc \in {"a_refind", "b_refind"} ELSE AtError
          /\ i < Len(calls) =>
                /\ calls[i].ok
                /\ calls[i+1].op = "list_objects" /\ calls[i+1].name = calls[i].name
                /\ (calls[i+1].ok /\ ~calls[i+1].found) =>
                      Len(calls) = i + 1 /\ AtError /\ err = "RuntimeError"

\* C7 witness: the second object of the document was created, was absent from the
\* listing after it, and the run ended in the error
C7_Witness ==
    /\ pc = "a_error" /\ err = "RuntimeError" /\ oi = 2
    /\ Len(calls) >= 2
    /\ calls[Len(calls)].op = "list_objects"
    /\ calls[Len(calls)].ok /\ ~calls[Len(calls)].found
    /\ calls[Len(calls) - 1].op = "create_object" /\ calls[Len(calls) - 1].ok

\* C8: in the loops that create the missing fields, every name that counts as
\* existing is the name of a field owned by the target object, also when the
\* gateway answers the listing with the fields of all objects
C8_OwnershipFilter ==
    pc \in {"cf_full", "cf_no_icon", "cf_minimal", "b_create_field"} =>
        \A n \in current_names :
            \E f \in gwFields : f.name = n /\ f.objectMetadataId = object_id

\* calls of the lifecycle guard that change remote state
Mutations == CallsOf("DELETE") \cup CallsOf("PATCH")

\* the object the guard was invoked for, as listed when the invocation started
Targets == {o \in snapObjects : o.nameSingular = argv[1]}

\* C4: when the resolved object is not custom, the guard ends in the policy error,
\* with or without --hard, having issued the object listing and no DELETE or PATCH
C4_PolicyEnforcement ==
    (pc \in {"d_done", "d_error", "d_delete", "d_patch"}
       /\ calls[1].ok /\ \E o \in Targets : ~o.isCustom) =>
        /\ pc = "d_error" /\ err = "PolicyError"
        /\ Mutations = {}
        /\ Len(calls) = 1
        /\ gwObjects = snapObjects

\* C4 witness: --hard against the system-defined object was refused
C4_Witness ==
    /\ pc = "d_error" /\ err = "PolicyError" /\ hard
    /\ argv[1] = Task /\ TaskObj \in gwObjects

\* the guard has ended for a custom object it found in the listing
EndedOnCustom ==
    /\ pc \in {"d_done", "d_error"}
    /\ calls # <<>> /\ calls[1].ok
    /\ \E o \in Targets : o.isCustom

\* C13: an invocation with --hard never issues a PATCH and issues at most one
\* mutation call; for a custom object it issues one DELETE and ends in an error
\* when that call failed, with the object left as it was, and in success when it
\* succeeded
C13_NoSilentFallback ==
    hard =>
        /\ CallsOf("PATCH") = {}
        /\ Cardinality(Mutations) <= 1
        /\ EndedOnCustom =>
              /\ Len(calls) = 2 /\ calls[2].op = "DELETE"
              /\ \A o \in Targets : calls[2].id = o.id
              /\ calls[2].ok => pc = "d_done" /\ err = "none"
              /\ ~calls[2].ok =>
                    /\ pc = "d_error" /\ err \in {"RuntimeError", "TransportError"}
                    /\ gwObjects = snapObjects

\* C13 witness: the DELETE of the custom object was answered with an error status
C13_Witness ==
    /\ hard /\ pc = "d_error" /\ err = "RuntimeError"
    /\ Len(calls) = 2 /\ calls[2].op = "DELETE" /\ ~calls[2].ok
    /\ DealObj \in gwObjects /\ argv[1] = Deal

\* C14: an invocation without --hard never issues a DELETE; for a custom object it
\* issues exactly one PATCH, which sets isActive to false on that object, ends in
\* success exactly when the PATCH succeeded and in an error when it was rejected,
\* with the object left as it was
C14_DeactivateOrFail ==
    ~hard =>
        /\ CallsOf("DELETE") = {}
        /\ EndedOnCustom =>
              /\ Len(calls) = 2 /\ calls[2].op = "PATCH" /\ ~calls[2].isActive
              /\ \A o \in Targets : calls[2].id = o.id
              /\ pc = "d_done" <=> calls[2].ok
              /\ calls[2].ok =>
                    /\ err = "none"
                    /\ \A o \in Targets : [o EXCEPT !.isActive = FALSE] \in gwObjects
              /\ ~calls[2].ok =>
                    /\ pc = "d_error" /\ err \in {"RuntimeError", "TransportError"}
                    /\ gwObjects = snapObjects

\* C14 witness: the PATCH of the active custom object was rejected
C14_Witness ==
    /\ ~hard /\ pc = "d_error" /\ err = "RuntimeError"
    /\ Len(calls) = 2 /\ calls[2].op = "PATCH" /\ ~calls[2].ok
    /\ DealObj \in gwObjects /\ argv[1] = Deal

\* C15: when the listing holds no object of the requested name the guard ends in
\* success, with or without --hard, having issued the listing and no mutation
\* call, in the first invocation and in every later one
C15_NoTarget ==
    (pc \in {"d_done", "d_error", "d_delete", "d_patch"}
       /\ calls # <<>> /\ calls[1].ok /\ Targets = {}) =>
        /\ pc = "d_done" /\ err = "none"
        /\ Mutations = {}
        /\ Len(calls) = 1
        /\ gwObjects = snapObjects

\* C15 witness: a second invocation, with --hard, for an object that is absent
\* while other objects are listed
C15_Witness ==
    /\ run = 2 /\ hard /\ pc = "d_done"
    /\ Targets = {} /\ gwObjects # {}
    /\ Len(calls) = 1 /\ calls[1].ok

====
